---- MODULE Spec2Model ----
(***************************************************************************)
(* Model of server.py: the local development server of the election        *)
(* widget.  A daemon thread (run_updater) regenerates data.csv and         *)
(* data.json, the HTTP server (NoCacheRequestHandler) serves the folder    *)
(* and saves the bytes POSTed to /save-embed.                              *)
(*                                                                         *)
(* Text is modelled as sequences of tokens: a decimal number is the       *)
(* sequence of its digit characters, a path is the sequence of its "/"     *)
(* separators and segment names, a CSV file is the sequence of its lines   *)
(* (each the sequence of its fields) and a JSON file is the single         *)
(* document written to it (numbers rendered as digits).                    *)
(***************************************************************************)
EXTENDS Integers, Sequences, FiniteSets, TLC

VARIABLES
    mainPc,     \* position of main(): "init","started","serve","finally","join","exit"
    stop,       \* stop_evt: the flag of the threading.Event
    updPc,      \* position of run_updater
    inLoop,     \* TRUE inside the body of the while loop (inside its try)
    rows,       \* the local variable rows of run_updater
    csvFile,    \* data.csv on disk
    jsonFile,   \* data.json on disk
    log,        \* the last line run_updater printed
    interval,   \* args.interval
    elapsed,    \* seconds spent in the current stop_evt.wait(interval)
    seen,       \* what a client fetching data.csv and data.json has received
    quiet,      \* history: no generator write since the client's first fetch
    hpc,        \* position of each request handler thread
    req,        \* the request each handler thread is serving
    data,       \* the local variable data of do_POST
    resp,       \* the responses each handler wrote for its request
    err,        \* history: the exception do_POST caught for the request
    solo,       \* history: no other handler touched the output file since this one opened it
    embedFile   \* "superdynamic - embed.html" on disk

genVars  == <<mainPc, stop, updPc, inLoop, rows, csvFile, jsonFile, log, interval, elapsed>>
readVars == <<seen, quiet>>
httpVars == <<hpc, req, data, resp, err, solo, embedFile>>
vars     == <<genVars, readVars, httpVars>>

(***************************************************************************)
(* Bounds of the model.                                                    *)
(***************************************************************************)
MaxSeed     == 1    \* the random generator is seeded from 0..MaxSeed
MaxInterval == 1    \* --interval is drawn from 0..MaxInterval
MaxBase     == 6    \* bases 0..MaxBase on which the perturbation rule is tried
MaxBody     == 1    \* a request body holds at most MaxBody bytes
MaxSlashes  == 2    \* a request path ends in at most MaxSlashes slashes

Max(a, b) == IF a >= b THEN a ELSE b
Min(a, b) == IF a <= b THEN a ELSE b

(***************************************************************************)
(* Decimal text: str(n) and int(s).                                        *)
(***************************************************************************)
Digits == <<"0", "1", "2", "3", "4", "5", "6", "7", "8", "9">>

DigitValue(c) == (CHOOSE i \in 1..10 : Digits[i] = c) - 1

IsDigit(c) == \E i \in 1..10 : Digits[i] = c

RECURSIVE NatToStr(_)
NatToStr(n) == IF n < 10 THEN <<Digits[n + 1]>>
               ELSE NatToStr(n \div 10) \o <<Digits[(n % 10) + 1]>>

IntToStr(n) == IF n < 0 THEN <<"-">> \o NatToStr(-n) ELSE NatToStr(n)

RECURSIVE StrToNat(_)
StrToNat(s) == IF Len(s) = 1 THEN DigitValue(s[1])
               ELSE 10 * StrToNat(SubSeq(s, 1, Len(s) - 1)) + DigitValue(s[Len(s)])

IsNatLiteral(s) == Len(s) >= 1 /\ \A i \in 1..Len(s) : IsDigit(s[i])

\* int(s) accepts an optional sign before the digits and raises ValueError otherwise
IsIntLiteral(s) == \/ IsNatLiteral(s)
                   \/ Len(s) >= 2 /\ s[1] \in {"-", "+"} /\ IsNatLiteral(Tail(s))

StrToInt(s) == IF s[1] = "-" THEN 0 - StrToNat(Tail(s))
               ELSE IF s[1] = "+" THEN StrToNat(Tail(s))
               ELSE StrToNat(s)

(***************************************************************************)
(* The module constants.                                                   *)
(***************************************************************************)
CSV_PATH   == <<"/", "data.csv">>
JSON_PATH  == <<"/", "data.json">>
EMBED_PATH == <<"/", "superdynamic - embed.html">>

PARTIES == << [name |-> "Alpha", color |-> "#1f77b4", base |-> 120],
              [name |-> "Beta",  color |-> "#ff7f0e", base |-> 100],
              [name |-> "Gamma", color |-> "#2ca02c", base |-> 80] >>

YEARS == <<"2020", "2024">>

Absent == [exists |-> FALSE, content |-> <<>>]
File(c) == [exists |-> TRUE, content |-> c]

(***************************************************************************)
(* new_random_snapshot.  random.Random() seeds itself from the operating   *)
(* system, so the seed is a free choice; the k-th number of the stream is *)
(* a fixed function of the seed, and randint(lo, hi) maps it into lo..hi.  *)
(***************************************************************************)
Seeds == 0..MaxSeed

\* the k-th number of the stream seeded with seed
RngOutput(seed, k) == 7 * seed + 5 * k

\* randint with the upper end off by one
randint_wide(seed, k, lo, hi) == lo + (RngOutput(seed, k) % (hi - lo + 2))

\* rng.randint(lo, hi): an integer of lo..hi, both ends included
randint(seed, k, lo, hi) == lo + (RngOutput(seed, k) % (hi - lo + 1))

Key(y, suf) == y \o "_" \o suf

\* line 54
perturbed_seats(base, delta) == Max(0, base + delta)

\* the index in the stream of the draw of delta for party i, year j; leads is the next
DrawIndex(i, j) == 2 * ((i - 1) * Len(YEARS) + (j - 1)) + 1

SnapshotRow(seed, i) ==
    LET p == PARTIES[i]
        yearOf(h) == CHOOSE j \in 1..Len(YEARS) :
                        h \in {Key(YEARS[j], "Seats"), Key(YEARS[j], "Leads")}
    IN  [h \in {"Party", "Color"} \cup
               {Key(YEARS[j], suf) : j \in 1..Len(YEARS), suf \in {"Seats", "Leads"}} |->
            IF h = "Party" THEN p.name
            ELSE IF h = "Color" THEN p.color
            ELSE IF h = Key(YEARS[yearOf(h)], "Seats")
                 THEN perturbed_seats(p.base, randint(seed, DrawIndex(i, yearOf(h)), -5, 5))
                 ELSE randint(seed, DrawIndex(i, yearOf(h)) + 1, 0, 5)]

new_random_snapshot(seed) == [i \in 1..Len(PARTIES) |-> SnapshotRow(seed, i)]

(***************************************************************************)
(* write_csv_and_json: the text of the two files.                          *)
(***************************************************************************)
Get(r, h, default) == IF h \in DOMAIN r THEN r[h] ELSE default

headers == <<"Party", "Color">> \o
           [n \in 1..(2 * Len(YEARS)) |->
               Key(YEARS[(n + 1) \div 2], IF n % 2 = 1 THEN "Seats" ELSE "Leads")]

\* csv.DictWriter writes str(value) of every field, in the order of fieldnames
CsvField(r, h) == IF h \notin DOMAIN r THEN <<>>
                  ELSE IF h \in {"Party", "Color"} THEN <<r[h]>>
                  ELSE IntToStr(r[h])

\* csv_text with the Seats and Leads values under each other's column
csv_text_swapped(rs) ==
    <<[n \in 1..Len(headers) |-> <<headers[n]>>]>> \o
    [i \in 1..Len(rs) |->
        [n \in 1..Len(headers) |->
            CsvField(rs[i], IF n <= 2 THEN headers[n]
                            ELSE headers[IF n % 2 = 1 THEN n + 1 ELSE n - 1])]]

\* lines 67-71: the header line, then one line per row
csv_text(rs) ==
    <<[n \in 1..Len(headers) |-> <<headers[n]>>]>> \o
    [i \in 1..Len(rs) |-> [n \in 1..Len(headers) |-> CsvField(rs[i], headers[n])]]

\* json_text fed by a snapshot of its own instead of the rows written to data.csv
json_text_resampled(rs) ==
    << [years   |-> YEARS,
        parties |-> [i \in 1..Len(rs) |->
            [party          |-> rs[i]["Party"],
             yearly_results |-> [j \in 1..Len(YEARS) |->
                [year  |-> YEARS[j],
                 seats |-> IntToStr(Get(new_random_snapshot(0)[i], Key(YEARS[j], "Seats"), 0)),
                 leads |-> IntToStr(Get(new_random_snapshot(0)[i], Key(YEARS[j], "Leads"), 0))]]]]] >>

\* json.dumps of the dict built at lines 74-86: one document, numbers as digits
json_text(rs) ==
    << [years   |-> YEARS,
        parties |-> [i \in 1..Len(rs) |->
            [party          |-> rs[i]["Party"],
             yearly_results |-> [j \in 1..Len(YEARS) |->
                [year  |-> YEARS[j],
                 seats |-> IntToStr(Get(rs[i], Key(YEARS[j], "Seats"), 0)),
                 leads |-> IntToStr(Get(rs[i], Key(YEARS[j], "Leads"), 0))]]]]] >>

(***************************************************************************)
(* NoCacheRequestHandler: the responses.  A response is the status, the    *)
(* set of headers sent before the blank line and the body.                 *)
(***************************************************************************)
\* the inherited end_headers alone
end_headers_plain(hs) == hs

\* lines 93-96 add three headers, then the inherited end_headers closes the block
end_headers(hs) ==
    hs \cup { <<"Cache-Control", <<"no-store, no-cache, must-revalidate, max-age=0">> >>,
              <<"Pragma", <<"no-cache">> >>,
              <<"Access-Control-Allow-Origin", <<"*">> >> }

\* send_response, send_header ..., end_headers, wfile.write(body)
Response(status, hs, body) == [status |-> status, hdrs |-> end_headers(hs), body |-> body]

NoResponse == [status |-> 0, hdrs |-> {}, body |-> <<>>]

\* send_error(code, message) of the base class: it ends its headers with self.end_headers()
send_error(code, message) ==
    Response(code, { <<"Content-Type", <<"text/html;charset=utf-8">> >>,
                     <<"Connection", <<"close">> >> }, <<message>>)

\* the JSON replies of do_POST (lines 110-115 and 118-123)
JsonResponse(status, doc) ==
    Response(status, { <<"Content-Type", <<"application/json; charset=utf-8">> >>,
                       <<"Content-Length", IntToStr(Len(<<doc>>))>> }, <<doc>>)

\* path.rstrip("/")
RECURSIVE rstrip(_)
rstrip(p) == IF Len(p) > 0 /\ p[Len(p)] = "/" THEN rstrip(SubSeq(p, 1, Len(p) - 1)) ELSE p

FileAt(p) == IF p = CSV_PATH THEN csvFile
             ELSE IF p = JSON_PATH THEN jsonFile
             ELSE IF p = EMBED_PATH THEN embedFile
             ELSE Absent

\* do_GET of SimpleHTTPRequestHandler for a regular file: 200 with its bytes, else 404
do_GET(p) ==
    IF FileAt(p).exists
    THEN Response(200, { <<"Content-Type", <<"application/octet-stream">> >> }, FileAt(p).content)
    ELSE send_error(404, "File not found")

(***************************************************************************)
(* main: start the updater thread, serve until interrupted, then set the   *)
(* stop event, join for at most two seconds and leave (the thread is a     *)
(* daemon: it dies with the process).                                      *)
(***************************************************************************)
Terminated == {"done", "crashed", "killed"}

StartThread ==
    /\ mainPc = "init"
    /\ mainPc' = "started"
    /\ updPc' = "gen"
    /\ UNCHANGED <<stop, inLoop, rows, csvFile, jsonFile, log, interval, elapsed>>
    /\ UNCHANGED <<readVars, httpVars>>

\* serve(): the socket is bound and serve_forever runs, or binding raises
ServeBind ==
    /\ mainPc = "started"
    /\ mainPc' \in {"serve", "finally"}
    /\ UNCHANGED <<stop, updPc, inLoop, rows, csvFile, jsonFile, log, interval, elapsed>>
    /\ UNCHANGED <<readVars, httpVars>>

\* KeyboardInterrupt ends serve_forever
ServeInterrupted ==
    /\ mainPc = "serve"
    /\ mainPc' = "finally"
    /\ UNCHANGED <<stop, updPc, inLoop, rows, csvFile, jsonFile, log, interval, elapsed>>
    /\ UNCHANGED <<readVars, httpVars>>

SetStop ==
    /\ mainPc = "finally"
    /\ stop' = TRUE
    /\ mainPc' = "join"
    /\ UNCHANGED <<updPc, inLoop, rows, csvFile, jsonFile, log, interval, elapsed>>
    /\ UNCHANGED <<readVars, httpVars>>

\* t.join(timeout=2) returns, main returns and the interpreter exits
JoinAndExit ==
    /\ mainPc = "join"
    /\ mainPc' = "exit"
    /\ updPc' = IF updPc \in Terminated THEN updPc ELSE "killed"
    /\ UNCHANGED <<stop, inLoop, rows, csvFile, jsonFile, log, interval, elapsed>>
    /\ UNCHANGED <<readVars, httpVars>>

(***************************************************************************)
(* run_updater.  One generation cycle is new_random_snapshot followed by   *)
(* the four file operations of write_csv_and_json; the initial cycle runs  *)
(* outside the try of the loop.                                            *)
(***************************************************************************)
\* an exception raised inside a cycle: caught and logged in the loop, uncaught before it
CycleFails ==
    IF inLoop
    THEN /\ updPc' = "wait"
         /\ log' = "warning"
         /\ elapsed' = 0
    ELSE /\ updPc' = "crashed"
         /\ UNCHANGED <<log, elapsed>>

Generate ==
    /\ updPc = "gen"
    /\ \E seed \in Seeds : rows' = new_random_snapshot(seed)
    /\ updPc' = "csv_open"
    /\ quiet' = FALSE
    /\ UNCHANGED <<mainPc, stop, inLoop, csvFile, jsonFile, log, interval, elapsed>>
    /\ UNCHANGED <<seen, httpVars>>

\* CSV_PATH.open("w"): the file is created or truncated
CsvOpen ==
    /\ updPc = "csv_open"
    /\ \/ /\ csvFile' = File(<<>>)
          /\ updPc' = "csv_write"
          /\ UNCHANGED <<log, elapsed>>
       \/ /\ CycleFails
          /\ UNCHANGED csvFile
    /\ quiet' = FALSE
    /\ UNCHANGED <<mainPc, stop, inLoop, rows, jsonFile, interval>>
    /\ UNCHANGED <<seen, httpVars>>

\* the header and the rows reach the file when the with block closes it
CsvWrite ==
    /\ updPc = "csv_write"
    /\ \/ /\ csvFile' = File(csv_text(rows))
          /\ updPc' = "json_open"
          /\ UNCHANGED <<log, elapsed>>
       \/ /\ CycleFails
          /\ UNCHANGED csvFile
    /\ quiet' = FALSE
    /\ UNCHANGED <<mainPc, stop, inLoop, rows, jsonFile, interval>>
    /\ UNCHANGED <<seen, httpVars>>

\* JSON_PATH.write_text opens the file for writing ...
JsonOpen ==
    /\ updPc = "json_open"
    /\ \/ /\ jsonFile' = File(<<>>)
          /\ updPc' = "json_write"
          /\ UNCHANGED <<log, elapsed>>
       \/ /\ CycleFails
          /\ UNCHANGED jsonFile
    /\ quiet' = FALSE
    /\ UNCHANGED <<mainPc, stop, inLoop, rows, csvFile, interval>>
    /\ UNCHANGED <<seen, httpVars>>

\* ... and writes the document; then the cycle prints its line and the wait begins
JsonWrite ==
    /\ updPc = "json_write"
    /\ \/ /\ jsonFile' = File(json_text(rows))
          /\ updPc' = "wait"
          /\ log' = IF inLoop THEN "updated" ELSE "initialized"
          /\ elapsed' = 0
       \/ /\ CycleFails
          /\ UNCHANGED jsonFile
    /\ quiet' = FALSE
    /\ UNCHANGED <<mainPc, stop, inLoop, rows, csvFile, interval>>
    /\ UNCHANGED <<seen, httpVars>>

\* a second passes while the thread is blocked in stop_evt.wait(interval)
Tick ==
    /\ updPc = "wait"
    /\ elapsed < interval
    /\ elapsed' = elapsed + 1
    /\ UNCHANGED <<mainPc, stop, updPc, inLoop, rows, csvFile, jsonFile, log, interval>>
    /\ UNCHANGED <<readVars, httpVars>>

\* a wait that sleeps the interval out and ignores the flag
wait_ignores_flag == elapsed >= interval

\* stop_evt.wait(interval) returns False: the interval elapsed and the flag is not set
wait_timed_out == ~stop /\ elapsed >= interval

WaitTimeout ==
    /\ updPc = "wait"
    /\ wait_timed_out
    /\ inLoop' = TRUE
    /\ updPc' = "gen"
    /\ UNCHANGED <<mainPc, stop, rows, csvFile, jsonFile, log, interval, elapsed>>
    /\ UNCHANGED <<readVars, httpVars>>

\* stop_evt.wait(interval) returns True as soon as the flag is set: the loop ends
WaitStopped ==
    /\ updPc = "wait"
    /\ stop
    /\ updPc' = "done"
    /\ UNCHANGED <<mainPc, stop, inLoop, rows, csvFile, jsonFile, log, interval, elapsed>>
    /\ UNCHANGED <<readVars, httpVars>>

Updater == Generate \/ CsvOpen \/ CsvWrite \/ JsonOpen \/ JsonWrite
           \/ WaitTimeout \/ WaitStopped

Main == StartThread \/ ServeBind \/ ServeInterrupted \/ SetStop \/ JoinAndExit

(***************************************************************************)
(* A client of the running server that fetches data.csv and data.json,     *)
(* one GET each, in either order.                                          *)
(***************************************************************************)
GeneratorQuiet == updPc \in {"wait", "done"} /\ log \in {"initialized", "updated"}

Fetch(f) ==
    /\ mainPc = "serve"
    /\ seen[f] = NoResponse
    /\ seen' = [seen EXCEPT ![f] = do_GET(IF f = "csv" THEN CSV_PATH ELSE JSON_PATH)]
    /\ quiet' = IF \A g \in DOMAIN seen : seen[g] = NoResponse THEN GeneratorQuiet ELSE quiet
    /\ UNCHANGED <<genVars, httpVars>>

Forget ==
    /\ \A f \in DOMAIN seen : seen[f] # NoResponse
    /\ seen' = [f \in DOMAIN seen |-> NoResponse]
    /\ quiet' = FALSE
    /\ UNCHANGED <<genVars, httpVars>>

Reader == Fetch("csv") \/ Fetch("json") \/ Forget

InitGen ==
    /\ mainPc = "init"
    /\ stop = FALSE
    /\ updPc = "unstarted"
    /\ inLoop = FALSE
    /\ rows = <<>>
    /\ csvFile = Absent
    /\ jsonFile = Absent
    /\ log = "none"
    /\ interval \in 0..MaxInterval
    /\ elapsed = 0

InitRead ==
    /\ seen = [f \in {"csv", "json"} |-> NoResponse]
    /\ quiet = FALSE

(***************************************************************************)
(* The request handler threads of ThreadingHTTPServer.  A handler takes a  *)
(* request, runs do_GET or do_POST and ends; do_POST is cut where it       *)
(* touches the output file: Path.write_bytes opens it (truncating) and     *)
(* then writes from offset 0.                                              *)
(***************************************************************************)
Handlers == {"h1", "h2"}

Bytes == {"a", "b"}

Bodies == UNION {[1..n -> Bytes] : n \in 0..MaxBody}

SAVE_PATH == <<"/", "save-embed">>

Slashes(k) == [i \in 1..k |-> "/"]

GetRequest(p) == [method |-> "GET", path |-> p, hasLen |-> FALSE, clen |-> <<>>, body |-> <<>>]

\* a POST whose Content-Length header states the length of its body
FramedPost(p, b) ==
    [method |-> "POST", path |-> p, hasLen |-> TRUE, clen |-> IntToStr(Len(b)), body |-> b]

Requests ==
    {GetRequest(p) : p \in {EMBED_PATH, CSV_PATH, <<"/", "unknown">>}}
    \cup {FramedPost(SAVE_PATH \o Slashes(k), b) : k \in 0..MaxSlashes, b \in Bodies}
    \cup {FramedPost(<<"/", "unknown">> \o Slashes(k), <<"a">>) : k \in 0..MaxSlashes}
    \cup {[FramedPost(SAVE_PATH, b) EXCEPT !.hasLen = FALSE, !.clen = <<>>] : b \in Bodies}
    \cup {[FramedPost(SAVE_PATH, b) EXCEPT !.clen = <<"x">>] : b \in Bodies}

NoError == "none"

Accept(h) ==
    /\ mainPc = "serve"
    /\ hpc[h] = "idle"
    /\ \E r \in Requests : req' = [req EXCEPT ![h] = r]
    /\ hpc' = [hpc EXCEPT ![h] = "recv"]
    /\ UNCHANGED <<data, resp, err, solo, embedFile>>
    /\ UNCHANGED <<genVars, readVars>>

DoGet(h) ==
    /\ hpc[h] = "recv"
    /\ req[h].method = "GET"
    /\ resp' = [resp EXCEPT ![h] = Append(@, do_GET(req[h].path))]
    /\ hpc' = [hpc EXCEPT ![h] = "done"]
    /\ UNCHANGED <<req, data, err, solo, embedFile>>
    /\ UNCHANGED <<genVars, readVars>>

\* str(out_path)
OUT_PATH == "superdynamic - embed.html"

\* an except clause that answers as the success path does
except_reply_ok(e) == JsonResponse(200, [ok |-> TRUE, path |-> OUT_PATH])

\* lines 116-123: the reply of the except clause
except_reply(e) == JsonResponse(500, [ok |-> FALSE, error |-> e])

\* the except clause: one 500 reply, and do_POST returns
Caught(h, e) ==
    /\ resp' = [resp EXCEPT ![h] = Append(@, except_reply(e))]
    /\ err' = [err EXCEPT ![h] = e]
    /\ hpc' = [hpc EXCEPT ![h] = "done"]

\* self.headers.get("Content-Length", "0")
ContentLength(r) == IF r.hasLen THEN r.clen ELSE <<"0">>

\* self.rfile.read(length) if length > 0 else b""
rfile_read(b, length) == IF length > 0 THEN SubSeq(b, 1, Min(length, Len(b))) ELSE <<>>

\* the comparison of line 102 without rstrip
IsSavePath_exact(p) == p = SAVE_PATH

\* line 102
IsSavePath(p) == rstrip(p) = SAVE_PATH

\* do_POST up to the call of write_bytes: the route, the length, the body
DoPost(h) ==
    /\ hpc[h] = "recv"
    /\ req[h].method = "POST"
    /\ IF IsSavePath(req[h].path)
       THEN \/ /\ ~IsIntLiteral(ContentLength(req[h]))
               /\ Caught(h, "ValueError: invalid literal for int()")
               /\ UNCHANGED data
            \/ /\ IsIntLiteral(ContentLength(req[h]))
               /\ StrToInt(ContentLength(req[h])) > 0
               /\ Caught(h, "OSError: read failed")
               /\ UNCHANGED data
            \/ /\ IsIntLiteral(ContentLength(req[h]))
               /\ data' = [data EXCEPT ![h] =
                              rfile_read(req[h].body, StrToInt(ContentLength(req[h])))]
               /\ hpc' = [hpc EXCEPT ![h] = "open"]
               /\ UNCHANGED <<resp, err>>
       ELSE /\ resp' = [resp EXCEPT ![h] = Append(@, send_error(404, "Not Found"))]
            /\ hpc' = [hpc EXCEPT ![h] = "done"]
            /\ UNCHANGED <<data, err>>
    /\ UNCHANGED <<req, solo, embedFile>>
    /\ UNCHANGED <<genVars, readVars>>

\* an open that keeps the bytes the file holds
open_append(f) == IF f.exists THEN f ELSE File(<<>>)

\* open(out_path, "wb"): the file is created or truncated
open_wb(f) == File(<<>>)

\* a write of d at offset 0 of a file that holds c
WriteAt0(d, c) == d \o SubSeq(c, Len(d) + 1, Len(c))

OpenOut(h) ==
    /\ hpc[h] = "open"
    /\ \/ /\ embedFile' = open_wb(embedFile)
          /\ hpc' = [hpc EXCEPT ![h] = "write"]
          /\ solo' = [g \in Handlers |-> g = h]
          /\ UNCHANGED <<resp, err>>
       \/ /\ Caught(h, "OSError: open failed")
          /\ UNCHANGED <<embedFile, solo>>
    /\ UNCHANGED <<req, data>>
    /\ UNCHANGED <<genVars, readVars>>

\* f.write(data) and the close; then the 200 reply of lines 109-115
WriteOut(h) ==
    /\ hpc[h] = "write"
    /\ \/ /\ embedFile' = File(WriteAt0(data[h], embedFile.content))
          /\ resp' = [resp EXCEPT ![h] =
                        Append(@, JsonResponse(200, [ok |-> TRUE, path |-> OUT_PATH]))]
          /\ hpc' = [hpc EXCEPT ![h] = "done"]
          /\ solo' = [g \in Handlers |-> g = h /\ solo[h]]
          /\ UNCHANGED err
       \/ /\ Caught(h, "OSError: write failed")
          /\ UNCHANGED <<embedFile, solo>>
    /\ UNCHANGED <<req, data>>
    /\ UNCHANGED <<genVars, readVars>>

\* the handler ends and its thread is free for the next connection
Finish(h) ==
    /\ hpc[h] = "done"
    /\ hpc' = [hpc EXCEPT ![h] = "idle"]
    /\ req' = [req EXCEPT ![h] = GetRequest(<<>>)]
    /\ data' = [data EXCEPT ![h] = <<>>]
    /\ resp' = [resp EXCEPT ![h] = <<>>]
    /\ err' = [err EXCEPT ![h] = NoError]
    /\ solo' = [solo EXCEPT ![h] = FALSE]
    /\ UNCHANGED embedFile
    /\ UNCHANGED <<genVars, readVars>>

Handler == \E h \in Handlers :
              Accept(h) \/ DoGet(h) \/ DoPost(h) \/ OpenOut(h) \/ WriteOut(h) \/ Finish(h)

InitHttp ==
    /\ hpc = [h \in Handlers |-> "idle"]
    /\ req = [h \in Handlers |-> GetRequest(<<>>)]
    /\ data = [h \in Handlers |-> <<>>]
    /\ resp = [h \in Handlers |-> <<>>]
    /\ err = [h \in Handlers |-> NoError]
    /\ solo = [h \in Handlers |-> FALSE]
    /\ embedFile = Absent

Init == InitGen /\ InitRead /\ InitHttp

\* the generator and a client of the two data files
Next == Main \/ Updater \/ Tick \/ Reader

Spec == Init /\ [][Next]_vars

\* the same, with the updater thread scheduled whenever it can run
LiveSpec == Init /\ [][Next]_vars /\ WF_vars(Updater)

\* The server while it serves: the state main reaches when the thread is started and
\* the socket is bound, from which only the request handlers are followed.
ServingInit ==
    /\ mainPc = "serve"
    /\ stop = FALSE
    /\ updPc = "gen"
    /\ inLoop = FALSE
    /\ rows = <<>>
    /\ csvFile = Absent
    /\ jsonFile = Absent
    /\ log = "none"
    /\ interval \in 0..MaxInterval
    /\ elapsed = 0
    /\ InitRead
    /\ InitHttp

HttpNext == Handler

HttpSpec == ServingInit /\ [][HttpNext]_vars

(***************************************************************************)
(* Reading the two data files back.                                        *)
(***************************************************************************)
Column(text, h) == CHOOSE n \in 1..Len(text[1]) : text[1][n] = <<h>>

CsvParses(text) ==
    /\ Len(text) >= 1
    /\ \A h \in {"Party"} \cup {Key(YEARS[j], suf) : j \in 1..Len(YEARS), suf \in {"Seats", "Leads"}} :
          \E n \in 1..Len(text[1]) : text[1][n] = <<h>>
    /\ \A i \in 2..Len(text) :
          /\ Len(text[i]) = Len(text[1])
          /\ Len(text[i][Column(text, "Party")]) = 1
          /\ \A j \in 1..Len(YEARS), suf \in {"Seats", "Leads"} :
                IsIntLiteral(text[i][Column(text, Key(YEARS[j], suf))])

CsvTuples(text) ==
    { << text[i][Column(text, "Party")][1], YEARS[j],
         StrToInt(text[i][Column(text, Key(YEARS[j], "Seats"))]),
         StrToInt(text[i][Column(text, Key(YEARS[j], "Leads"))]) >> :
      i \in 2..Len(text), j \in 1..Len(YEARS) }

JsonParses(text) ==
    /\ Len(text) = 1
    /\ \A i \in 1..Len(text[1].parties) : \A j \in 1..Len(text[1].parties[i].yearly_results) :
          /\ IsIntLiteral(text[1].parties[i].yearly_results[j].seats)
          /\ IsIntLiteral(text[1].parties[i].yearly_results[j].leads)

JsonTuples(text) ==
    { << text[1].parties[i].party, text[1].parties[i].yearly_results[j].year,
         StrToInt(text[1].parties[i].yearly_results[j].seats),
         StrToInt(text[1].parties[i].yearly_results[j].leads) >> :
      i \in 1..Len(text[1].parties), j \in 1..Len(YEARS) }

BothFetched == \A f \in DOMAIN seen : seen[f] # NoResponse

BothComplete ==
    /\ BothFetched
    /\ seen["csv"].status = 200 /\ CsvParses(seen["csv"].body) /\ Len(seen["csv"].body) > 1
    /\ seen["json"].status = 200 /\ JsonParses(seen["json"].body)

(***************************************************************************)
(* C1 as stated: a client that has fetched data.csv and data.json, each    *)
(* complete, holds the two files of one snapshot, wherever its two GETs    *)
(* fall relative to the generation cycles.                                 *)
(***************************************************************************)
C1_NeverMixed ==
    BothComplete => CsvTuples(seen["csv"].body) = JsonTuples(seen["json"].body)

(***************************************************************************)
(* C1 amended: a client whose two GETs both fall within one period in      *)
(* which the generator is between cycles, after a cycle that completed     *)
(* both writes, receives both files, complete and of the same snapshot.    *)
(***************************************************************************)
C1_PairWhenQuiet ==
    (BothFetched /\ quiet) =>
        /\ BothComplete
        /\ CsvTuples(seen["csv"].body) = JsonTuples(seen["json"].body)

C1_Witness == BothFetched /\ quiet /\ log = "updated" /\ updPc = "wait"

(***************************************************************************)
(* C2: no failure of a write of data.csv or data.json, in the initial      *)
(* cycle or in a scheduled one, ends the generator thread: the thread      *)
(* never dies of an uncaught exception.                                    *)
(***************************************************************************)
C2_FailureContained == updPc # "crashed"

(***************************************************************************)
(* C3: once the stop signal is set while the generator is in its wait (or  *)
(* has ended), no generation cycle starts and neither data file is written *)
(* again; and the generator thread, stopped in its wait, eventually ends,  *)
(* whether or not the interval has elapsed.                                *)
(***************************************************************************)
StoppedInWait == stop /\ updPc \in {"wait"} \cup Terminated

C3_StopEndsLoop ==
    /\ [][StoppedInWait => (StoppedInWait' /\ csvFile' = csvFile /\ jsonFile' = jsonFile
                               /\ rows' = rows /\ log' = log)]_vars
    /\ ((stop /\ updPc = "wait") ~> (updPc \in Terminated))

C3_Witness == stop /\ updPc = "done" /\ elapsed < interval /\ log = "updated"

(***************************************************************************)
(* C4: every GET of data.csv or data.json that the server answers finds    *)
(* the file present.                                                       *)
(***************************************************************************)
C4_NeverAbsent == \A f \in DOMAIN seen : seen[f] # NoResponse => seen[f].status = 200

(***************************************************************************)
(* C5: while the generator rests after a successful cycle, data.csv and    *)
(* data.json parse and read back as the same set of (party, year, seats,   *)
(* leads) tuples, with exactly one tuple for every party and year.         *)
(***************************************************************************)
C5_SameTuples ==
    GeneratorQuiet =>
        /\ csvFile.exists /\ CsvParses(csvFile.content)
        /\ jsonFile.exists /\ JsonParses(jsonFile.content)
        /\ CsvTuples(csvFile.content) = JsonTuples(jsonFile.content)
        /\ Cardinality(CsvTuples(csvFile.content)) = Len(PARTIES) * Len(YEARS)
        /\ \A i \in 1..Len(PARTIES), j \in 1..Len(YEARS) :
              \E t \in JsonTuples(jsonFile.content) : t[1] = PARTIES[i].name /\ t[2] = YEARS[j]

C5_Witness == GeneratorQuiet /\ log = "updated" /\ interval = 0 /\ updPc = "wait"

(***************************************************************************)
(* C10: in every snapshot, for every party and year, seats is base + delta *)
(* floored at zero for some delta in -5..5 (so seats >= 0) and leads is in *)
(* 0..5; and the rule of line 54 yields zero, never a negative count, on   *)
(* every base small enough for base + delta to be negative.                *)
(***************************************************************************)
C10_SeatsAndLeads ==
    /\ \A i \in 1..Len(rows), j \in 1..Len(YEARS) :
          LET seats == rows[i][Key(YEARS[j], "Seats")]
              leads == rows[i][Key(YEARS[j], "Leads")]
              base  == PARTIES[i].base
          IN  /\ seats >= 0
              /\ \E delta \in -5..5 :
                    \/ seats = base + delta
                    \/ base + delta < 0 /\ seats = 0
              /\ leads \in 0..5
    /\ \A base \in 0..MaxBase, delta \in -5..5 :
          /\ perturbed_seats(base, delta) >= 0
          /\ perturbed_seats(base, delta) = IF base + delta < 0 THEN 0 ELSE base + delta

C10_Witness ==
    /\ Len(rows) = Len(PARTIES)
    /\ \E i \in 1..Len(rows), j \in 1..Len(YEARS) :
          rows[i][Key(YEARS[j], "Seats")] = PARTIES[i].base - 5
    /\ \E i \in 1..Len(rows), j \in 1..Len(YEARS) : rows[i][Key(YEARS[j], "Leads")] = 5

(***************************************************************************)
(* C6: when a POST to /save-embed whose Content-Length states its body     *)
(* completes its write, and no other handler touched the output file since *)
(* this one opened it, the file holds exactly the bytes of the body, with  *)
(* nothing left of the previous content, and a GET of the file answers 200 *)
(* with those bytes; the empty body included.                              *)
(***************************************************************************)
Framed(r) == \/ r.hasLen /\ IsNatLiteral(r.clen) /\ StrToNat(r.clen) = Len(r.body)
             \/ ~r.hasLen /\ r.body = <<>>

Saved(h) ==
    /\ hpc[h] = "done"
    /\ req[h].method = "POST"
    /\ err[h] = NoError
    /\ Len(resp[h]) = 1
    /\ resp[h][1].status = 200

C6_RoundTrip ==
    [][\A h \in Handlers :
          (hpc[h] = "write" /\ hpc'[h] = "done" /\ err'[h] = NoError /\ solo[h] /\ Framed(req[h]))
          => /\ embedFile' = [exists |-> TRUE, content |-> req[h].body]
             /\ (do_GET(EMBED_PATH).status)' = 200
             /\ (do_GET(EMBED_PATH).body)' = req[h].body]_vars

C6_Witness ==
    \E h, g \in Handlers :
        /\ h # g
        /\ Saved(g) /\ Framed(req[g]) /\ req[g].body # <<>>
        /\ Saved(h) /\ Framed(req[h]) /\ req[h].body = <<>> /\ solo[h]
        /\ embedFile = [exists |-> TRUE, content |-> <<>>]

(***************************************************************************)
(* C7 as stated: a POST is handled as a save request exactly when its      *)
(* path, with one trailing slash ignored, is /save-embed; any other POST   *)
(* is answered 404 and leaves the output file unchanged.                   *)
(***************************************************************************)
HandledAsSave(h) == hpc[h] \in {"open", "write"} \/ err[h] # NoError

Answered404(h) ==
    /\ hpc[h] = "done"
    /\ Len(resp[h]) = 1
    /\ resp[h][1].status = 404
    /\ resp[h][1].body = <<"Not Found">>

PostRouted(h, isSave) ==
    (hpc[h] = "recv" /\ req[h].method = "POST" /\ hpc'[h] # "recv")
    => /\ isSave <=> HandledAsSave(h)'
       /\ ~isSave => (Answered404(h)' /\ embedFile' = embedFile)

C7_OneSlashIgnored ==
    [][\A h \in Handlers :
          PostRouted(h, req[h].path \in {<<"/", "save-embed">>, <<"/", "save-embed", "/">>})]_vars

(***************************************************************************)
(* C7 amended: a POST is handled as a save request exactly when its path   *)
(* is /save-embed followed by any number of slashes (none, one or more);   *)
(* any other POST is answered 404 and leaves the output file unchanged.    *)
(***************************************************************************)
C7_AllSlashesIgnored ==
    [][\A h \in Handlers :
          PostRouted(h, \E k \in 0..Len(req[h].path) :
                            /\ Len(req[h].path) = 2 + k
                            /\ req[h].path[1] = "/"
                            /\ req[h].path[2] = "save-embed"
                            /\ \A n \in 3..(2 + k) : req[h].path[n] = "/")]_vars

C7_Witness ==
    \E h, g \in Handlers :
        /\ Saved(h) /\ req[h].path = <<"/", "save-embed", "/">>
        /\ req[g].method = "POST" /\ req[g].path = <<"/", "unknown">> /\ Answered404(g)

(***************************************************************************)
(* C8: every response, whatever the method, the path and the status,       *)
(* carries Cache-Control: no-store, no-cache, must-revalidate, max-age=0,  *)
(* Pragma: no-cache and Access-Control-Allow-Origin: *.                    *)
(***************************************************************************)
HasNoCacheHeaders(r) ==
    /\ <<"Cache-Control", <<"no-store, no-cache, must-revalidate, max-age=0">> >> \in r.hdrs
    /\ <<"Pragma", <<"no-cache">> >> \in r.hdrs
    /\ <<"Access-Control-Allow-Origin", <<"*">> >> \in r.hdrs

C8_NoCacheHeaders ==
    /\ \A h \in Handlers : \A n \in 1..Len(resp[h]) : HasNoCacheHeaders(resp[h][n])
    /\ \A f \in DOMAIN seen : seen[f].status # 0 => HasNoCacheHeaders(seen[f])

C8_Witness ==
    \E h, g \in Handlers :
        /\ Answered404(h)
        /\ hpc[g] = "done" /\ Len(resp[g]) = 1 /\ resp[g][1].status \in {200, 500}

(***************************************************************************)
(* C9: a POST to /save-embed in which reading the body or writing the      *)
(* output file failed has been answered exactly once, with status 500 and  *)
(* the payload {ok: false, error: <the message>}, and its handler has      *)
(* returned normally.                                                      *)
(***************************************************************************)
C9_FailureAnswered500 ==
    \A h \in Handlers :
        err[h] # NoError =>
            /\ hpc[h] = "done"
            /\ Len(resp[h]) = 1
            /\ resp[h][1].status = 500
            /\ resp[h][1].body = <<[ok |-> FALSE, error |-> err[h]]>>

C9_Witness ==
    \E h, g \in Handlers :
        /\ err[h] = "OSError: write failed" /\ resp[h][1].status = 500
        /\ err[g] = "OSError: read failed" /\ resp[g][1].status = 500

====
